---- MODULE Spec2Model ----
(***************************************************************************)
(* Model of backend/main.py: the lottery_results table (SQLite), the       *)
(* request handlers that write it (POST /add, POST /add_bulk, GET /scrape, *)
(* DELETE /results/{id}) and the queries that read it (GET /results,       *)
(* GET /results/{period}, GET /periods).                                   *)
(*                                                                         *)
(* Every handler opens its own connection.  A connection's first           *)
(* INSERT/DELETE starts a write transaction, which takes the database's    *)
(* write lock; the lock is held until the connection commits or is closed  *)
(* (a close without commit rolls the transaction back).  Other connections *)
(* read the committed table and wait for the lock before they write.       *)
(* Text is modelled as a sequence of character codes, compared as SQLite's *)
(* default BINARY collation compares it.  created_at is not modelled: no   *)
(* handler reads it.                                                       *)
(***************************************************************************)
EXTENDS Integers, Sequences, FiniteSets, TLC

VARIABLES
    rows,       \* committed rows of lottery_results
    seq,        \* committed sqlite_sequence value of the AUTOINCREMENT key
    writer,     \* the request whose connection holds the write lock, or NoProc
    txRows,     \* the table as the write transaction sees it
    txSeq,      \* sqlite_sequence as the write transaction sees it
    pc,         \* where each request slot's handler stands
    req,        \* the request each slot is serving
    cnt,        \* the loop position and the counters of add_bulk / scrape
    last,       \* the request answered last, with its response
    assigned    \* history: every id a committed insert was given

vars == <<rows, seq, writer, txRows, txSeq, pc, req, cnt, last, assigned>>

----------------------------------------------------------------------------
\* Bounds of the model.

\* Largest value sqlite_sequence may reach (inserts stop being tried there).
MaxSeq == 3

\* Largest limit passed to GET /results.
MaxLimit == 3

----------------------------------------------------------------------------
\* Values.

Procs == {"p1", "p2"}
NoProc == "none"
\* Optional[int] = None: an absent prize_amount is the empty sequence, a
\* present one a sequence of one number.
NULL == <<>>

\* prize_amount INTEGER is a 64-bit signed column: a magnitude fits when it
\* needs at most 63 bits.  An amount is represented by the number of bits of
\* its magnitude (6000000 needs 23, 2000 needs 11, 2^63 needs 64).
SqliteIntegerBits == 63

Fits(prize_amount) == prize_amount = NULL \/ prize_amount[1] <= SqliteIntegerBits

\* draw_date texts: "16", "2" (character codes).
D16 == <<49, 54>>
D2 == <<50>>

\* prize_type texts: the four the CASE of get_results_by_period names
\* (first prize, front 3 digits, back 3 digits, back 2 digits; Thai in the
\* source, transliterated here) and one it does not name (second prize).
FIRST == "rangwan thi 1"
FRONT3 == "lek na 3 tua"
BACK3 == "lek thai 3 tua"
BACK2 == "lek thai 2 tua"
SECOND == "rangwan thi 2"

LotteryResult(d, t, n, a) ==
    [draw_date |-> d, prize_type |-> t, prize_number |-> n, prize_amount |-> a]

R1 == LotteryResult(D16, BACK2, "12", NULL)
R2 == LotteryResult(D16, FIRST, "123456", <<23>>)
R3 == LotteryResult(D16, BACK3, "123", NULL)
R4 == LotteryResult(D16, BACK2, "12", <<11>>)
R5 == LotteryResult(D2, SECOND, "", NULL)
R6 == LotteryResult(D16, FIRST, "123456", <<64>>)
R7 == LotteryResult(D16, BACK2, "34", NULL)
R8 == LotteryResult(D2, FRONT3, "456", NULL)

\* Request bodies of POST /add.
AddBodies == {R1, R2, R3, R4, R5, R6, R7}

\* Request bodies of POST /add_bulk.
BulkBodies == {<<>>, <<R1, R1, R5>>, <<R3, R6, R7>>, <<R2, R7>>}

\* What the extraction step of GET /scrape finds (no prize_amount).
ScrapeFound == {<<>>, <<R1, R8>>}

\* Status of the upstream fetch.
UpstreamStatuses == {200, 503}

NoReq == [op |-> "none"]
NoLast == [req |-> NoReq, resp |-> [status |-> 0]]

\* The handler of request r returns (or raises) response b.
Answer(r, b) == [req |-> r, resp |-> b]
NoCnt == [i |-> 0, added |-> 0, skipped |-> 0]

----------------------------------------------------------------------------
\* Text.

RECURSIVE TextLess(_, _)
\* a < b under the BINARY collation (bytewise, a proper prefix is smaller).
TextLess(a, b) ==
    IF b = <<>> THEN FALSE
    ELSE IF a = <<>> THEN TRUE
    ELSE IF Head(a) = Head(b) THEN TextLess(Tail(a), Tail(b))
    ELSE Head(a) < Head(b)

\* The code points of the f-string's fixed prefix (a Thai phrase and a space).
PeriodPrefix == <<3591, 3623, 3604, 3623, 3633, 3609, 3607, 3637, 3656, 32>>

\* period = f"<prefix>{draw_date}"
DerivePeriod(draw_date) == PeriodPrefix \o draw_date

----------------------------------------------------------------------------
\* The table.

Ids(store) == {r.id : r \in store}

\* UNIQUE(draw_date, period, prize_type, prize_number)
SameKey(r, result, period) ==
    /\ r.draw_date = result.draw_date
    /\ r.period = period
    /\ r.prize_type = result.prize_type
    /\ r.prize_number = result.prize_number

\* The same on a table declared without the UNIQUE constraint.
InsertOutcomeUnchecked(store, result, period) ==
    IF ~Fits(result.prize_amount)
    THEN "OverflowError"
    ELSE "ok"

\* What cursor.execute(INSERT ...) does: binding a prize_amount outside the
\* 64-bit range raises OverflowError before the statement runs; a row with
\* the same key raises sqlite3.IntegrityError; else the row is inserted.
InsertOutcome(store, result, period) ==
    IF ~Fits(result.prize_amount)
    THEN "OverflowError"
    ELSE IF \E r \in store : SameKey(r, result, period)
    THEN "IntegrityError"
    ELSE "ok"

Max(S) == CHOOSE x \in S : \A y \in S : y <= x

\* INTEGER PRIMARY KEY without AUTOINCREMENT: one more than the largest id
\* now in the table.
NextIdRowid(store, sequence) == Max({0} \cup Ids(store)) + 1

\* INTEGER PRIMARY KEY AUTOINCREMENT: one more than the largest id the table
\* ever held, which sqlite_sequence keeps.
NextId(store, sequence) == Max({sequence} \cup Ids(store)) + 1

NewRow(id, result, period) ==
    [id |-> id,
     draw_date |-> result.draw_date,
     period |-> period,
     prize_type |-> result.prize_type,
     prize_number |-> result.prize_number,
     prize_amount |-> result.prize_amount]

\* DELETE ... WHERE id <= ?
DeleteWhereIdUpTo(store, result_id) == {r \in store : r.id > result_id}

\* DELETE FROM lottery_results WHERE id = ?
DeleteWhereId(store, result_id) == {r \in store : r.id # result_id}

----------------------------------------------------------------------------
\* Queries.

Min(a, b) == IF a < b THEN a ELSE b

Limit(s, limit) == SubSeq(s, 1, Min(limit, Len(s)))

\* ORDER BY draw_date DESC, id DESC
RecentFirst(r, o) ==
    \/ TextLess(o.draw_date, r.draw_date)
    \/ r.draw_date = o.draw_date /\ r.id > o.id

RECURSIVE OrderByDateDescIdDesc(_)
OrderByDateDescIdDesc(S) ==
    IF S = {} THEN <<>>
    ELSE LET first == CHOOSE r \in S : \A o \in S \ {r} : RecentFirst(r, o)
         IN <<first>> \o OrderByDateDescIdDesc(S \ {first})

\* ORDER BY draw_date, id
RECURSIVE OrderByDateAscIdAsc(_)
OrderByDateAscIdAsc(S) ==
    IF S = {} THEN <<>>
    ELSE LET first == CHOOSE r \in S : \A o \in S \ {r} : RecentFirst(o, r)
         IN <<first>> \o OrderByDateAscIdAsc(S \ {first})

get_all_results_asc(store, limit) == Limit(OrderByDateAscIdAsc(store), limit)

\* GET /results?limit=N
get_all_results(store, limit) == Limit(OrderByDateDescIdDesc(store), limit)

\* The CASE with the ranks of the two back-digit prizes exchanged.
PrizeRankSwapped(prize_type) ==
    CASE prize_type = FIRST -> 1
      [] prize_type = FRONT3 -> 2
      [] prize_type = BACK3 -> 4
      [] prize_type = BACK2 -> 3
      [] OTHER -> 5

\* CASE prize_type WHEN ... THEN 1 ... ELSE 5 END
PrizeRank(prize_type) ==
    CASE prize_type = FIRST -> 1
      [] prize_type = FRONT3 -> 2
      [] prize_type = BACK3 -> 3
      [] prize_type = BACK2 -> 4
      [] OTHER -> 5

\* ORDER BY CASE prize_type ... END, id
RankFirst(r, o) ==
    \/ PrizeRank(r.prize_type) < PrizeRank(o.prize_type)
    \/ PrizeRank(r.prize_type) = PrizeRank(o.prize_type) /\ r.id < o.id

RECURSIVE OrderByRankId(_)
OrderByRankId(S) ==
    IF S = {} THEN <<>>
    ELSE LET first == CHOOSE r \in S : \A o \in S \ {r} : RankFirst(r, o)
         IN <<first>> \o OrderByRankId(S \ {first})

\* GET /results/{period}: 404 when no row matches.
get_results_by_period(store, period) ==
    LET found == OrderByRankId({r \in store : r.period = period})
    IN IF found = <<>> THEN [status |-> 404, body |-> <<>>]
       ELSE [status |-> 200, body |-> found]

RECURSIVE OrderByDateDesc(_)
\* ORDER BY draw_date DESC (rows of equal draw_date in any order)
OrderByDateDesc(S) ==
    IF S = {} THEN <<>>
    ELSE LET first == CHOOSE r \in S :
                        \A o \in S : ~TextLess(r.draw_date, o.draw_date)
         IN <<first>> \o OrderByDateDesc(S \ {first})

PeriodOf(r) == [period |-> r.period, draw_date |-> r.draw_date]

\* The SELECT without DISTINCT: one entry for every row.
get_all_periods_every_row(store) ==
    LET ordered == OrderByDateDesc(store)
    IN [i \in 1..Len(ordered) |-> PeriodOf(ordered[i])]

\* GET /periods: SELECT DISTINCT period, draw_date ... ORDER BY draw_date DESC
get_all_periods(store) ==
    OrderByDateDesc({PeriodOf(r) : r \in store})

----------------------------------------------------------------------------
\* The write lock and the connection's transaction.

LockFree(p) == writer \in {NoProc, p}

\* conn.commit() of p's connection: its transaction's table, when it has
\* one, becomes the committed table.
Commit(p) ==
    IF writer = p
    THEN /\ rows' = txRows
         /\ seq' = txSeq
         /\ assigned' = assigned \cup (Ids(txRows) \ Ids(rows))
         /\ writer' = NoProc
         /\ UNCHANGED <<txRows, txSeq>>
    ELSE UNCHANGED <<rows, seq, assigned, writer, txRows, txSeq>>

\* p's connection goes away without a commit: its transaction, when it has
\* one, is undone.
Rollback(p) ==
    IF writer = p
    THEN /\ txRows' = rows
         /\ txSeq' = seq
         /\ writer' = NoProc
    ELSE UNCHANGED <<txRows, txSeq, writer>>

----------------------------------------------------------------------------
Init ==
    /\ rows = {}
    /\ seq = 0
    /\ writer = NoProc
    /\ txRows = {}
    /\ txSeq = 0
    /\ pc = [p \in Procs |-> "idle"]
    /\ req = [p \in Procs |-> NoReq]
    /\ cnt = [p \in Procs |-> NoCnt]
    /\ last = NoLast
    /\ assigned = {}

----------------------------------------------------------------------------
\* POST /add

\* The handler up to cursor.execute: the period is derived, the INSERT runs.
add_result_execute(p, result) ==
    /\ pc[p] = "idle"
    /\ LET period == DerivePeriod(result.draw_date)
           outcome == InsertOutcome(txRows, result, period)
           id == NextId(txRows, txSeq)
           request == [op |-> "add", result |-> result]
       IN /\ outcome # "OverflowError" => LockFree(p)
          /\ outcome = "ok" => txSeq < MaxSeq
          /\ CASE outcome = "ok" ->
                    /\ writer' = p
                    /\ txRows' = txRows \cup {NewRow(id, result, period)}
                    /\ txSeq' = id
                    /\ pc' = [pc EXCEPT ![p] = "add_commit"]
                    /\ req' = [req EXCEPT ![p] = request]
                    /\ UNCHANGED last
               [] outcome = "IntegrityError" ->
                    \* except sqlite3.IntegrityError: conn.close(); 400
                    /\ last' = Answer(request, [status |-> 400])
                    /\ UNCHANGED <<writer, txRows, txSeq, pc, req>>
               [] OTHER ->
                    \* not caught by the handler: the framework answers 500
                    /\ last' = Answer(request, [status |-> 500])
                    /\ UNCHANGED <<writer, txRows, txSeq, pc, req>>
    /\ UNCHANGED <<rows, seq, cnt, assigned>>

\* conn.commit(); result_id = cursor.lastrowid; 200 {id, period}
add_result_commit(p) ==
    /\ pc[p] = "add_commit"
    /\ Commit(p)
    /\ pc' = [pc EXCEPT ![p] = "idle"]
    /\ req' = [req EXCEPT ![p] = NoReq]
    /\ last' = Answer(req[p],
                      [status |-> 200, id |-> txSeq,
                       period |-> DerivePeriod(req[p].result.draw_date)])
    /\ UNCHANGED cnt

----------------------------------------------------------------------------
\* POST /add_bulk

add_bulk_start(p, results) ==
    /\ pc[p] = "idle"
    /\ req' = [req EXCEPT ![p] = [op |-> "add_bulk", results |-> results]]
    /\ cnt' = [cnt EXCEPT ![p] = [i |-> 1, added |-> 0, skipped |-> 0]]
    /\ pc' = [pc EXCEPT ![p] = "bulk_loop"]
    /\ UNCHANGED <<rows, seq, writer, txRows, txSeq, last, assigned>>

\* One turn of the for loop.
add_bulk_item(p) ==
    /\ pc[p] = "bulk_loop"
    /\ cnt[p].i <= Len(req[p].results)
    /\ LET result == req[p].results[cnt[p].i]
           period == DerivePeriod(result.draw_date)
           outcome == InsertOutcome(txRows, result, period)
           id == NextId(txRows, txSeq)
       IN /\ outcome # "OverflowError" => LockFree(p)
          /\ outcome = "ok" => txSeq < MaxSeq
          /\ CASE outcome = "ok" ->
                    /\ writer' = p
                    /\ txRows' = txRows \cup {NewRow(id, result, period)}
                    /\ txSeq' = id
                    /\ cnt' = [cnt EXCEPT ![p].i = @ + 1, ![p].added = @ + 1]
                    /\ UNCHANGED <<pc, req, last>>
               [] outcome = "IntegrityError" ->
                    \* except sqlite3.IntegrityError: skipped_count += 1
                    /\ writer' = p
                    /\ cnt' = [cnt EXCEPT ![p].i = @ + 1, ![p].skipped = @ + 1]
                    /\ UNCHANGED <<txRows, txSeq, pc, req, last>>
               [] OTHER ->
                    \* any other exception leaves the handler: conn.commit()
                    \* is never reached, the connection is discarded and the
                    \* framework answers 500
                    /\ Rollback(p)
                    /\ pc' = [pc EXCEPT ![p] = "idle"]
                    /\ req' = [req EXCEPT ![p] = NoReq]
                    /\ cnt' = [cnt EXCEPT ![p] = NoCnt]
                    /\ last' = Answer(req[p], [status |-> 500])
    /\ UNCHANGED <<rows, seq, assigned>>

\* After the loop: conn.commit(); conn.close(); 200 {added, skipped}
add_bulk_commit(p) ==
    /\ pc[p] = "bulk_loop"
    /\ cnt[p].i > Len(req[p].results)
    /\ Commit(p)
    /\ pc' = [pc EXCEPT ![p] = "idle"]
    /\ req' = [req EXCEPT ![p] = NoReq]
    /\ cnt' = [cnt EXCEPT ![p] = NoCnt]
    /\ last' = Answer(req[p],
                      [status |-> 200, added |-> cnt[p].added,
                       skipped |-> cnt[p].skipped])

----------------------------------------------------------------------------
\* GET /scrape

\* The status the caller gets for an exception raised inside the handler's
\* try block: except Exception catches every one of them, the
\* HTTPException(502) of the fetch check included, and raises
\* HTTPException(500).
ScrapeErrorStatus(raised) == 500

\* The fetch, the status check, the extraction and the empty-result return.
scrape_fetch(p, upstream, found) ==
    /\ pc[p] = "idle"
    /\ LET request == [op |-> "scrape", upstream |-> upstream, results |-> found]
       IN IF upstream # 200
          THEN \* raise HTTPException(status_code=502, ...) inside the try
               /\ last' = Answer(request, [status |-> ScrapeErrorStatus(502)])
               /\ UNCHANGED <<pc, req, cnt>>
          ELSE IF found = <<>>
          THEN \* the "No results found" advisory
               /\ last' = Answer(request, [status |-> 200, total_found |-> 0])
               /\ UNCHANGED <<pc, req, cnt>>
          ELSE /\ pc' = [pc EXCEPT ![p] = "scrape_loop"]
               /\ req' = [req EXCEPT ![p] = request]
               /\ cnt' = [cnt EXCEPT ![p] = [i |-> 1, added |-> 0, skipped |-> 0]]
               /\ UNCHANGED last
    /\ UNCHANGED <<rows, seq, writer, txRows, txSeq, assigned>>

\* One turn of the save loop.
scrape_item(p) ==
    /\ pc[p] = "scrape_loop"
    /\ cnt[p].i <= Len(req[p].results)
    /\ LET result == req[p].results[cnt[p].i]
           period == DerivePeriod(result.draw_date)
           outcome == InsertOutcome(txRows, result, period)
           id == NextId(txRows, txSeq)
       IN /\ LockFree(p)
          /\ outcome = "ok" => txSeq < MaxSeq
          /\ IF outcome = "ok"
             THEN /\ writer' = p
                  /\ txRows' = txRows \cup {NewRow(id, result, period)}
                  /\ txSeq' = id
                  /\ cnt' = [cnt EXCEPT ![p].i = @ + 1, ![p].added = @ + 1]
             ELSE \* except sqlite3.IntegrityError: continue
                  /\ writer' = p
                  /\ cnt' = [cnt EXCEPT ![p].i = @ + 1]
                  /\ UNCHANGED <<txRows, txSeq>>
    /\ UNCHANGED <<rows, seq, pc, req, last, assigned>>

\* conn.commit(); conn.close(); 200 {total_found, added_to_db}
scrape_commit(p) ==
    /\ pc[p] = "scrape_loop"
    /\ cnt[p].i > Len(req[p].results)
    /\ Commit(p)
    /\ pc' = [pc EXCEPT ![p] = "idle"]
    /\ req' = [req EXCEPT ![p] = NoReq]
    /\ cnt' = [cnt EXCEPT ![p] = NoCnt]
    /\ last' = Answer(req[p],
                      [status |-> 200, total_found |-> Len(req[p].results),
                       added_to_db |-> cnt[p].added])

----------------------------------------------------------------------------
\* DELETE /results/{result_id}

\* cursor.execute(DELETE ...) and the rowcount check.
delete_result_execute(p, result_id) ==
    /\ pc[p] = "idle"
    /\ LockFree(p)
    /\ LET left == DeleteWhereId(txRows, result_id)
           request == [op |-> "delete", result_id |-> result_id]
       IN IF left = txRows
          THEN \* rowcount == 0: conn.close(); 404
               /\ last' = Answer(request, [status |-> 404])
               /\ UNCHANGED <<writer, txRows, pc, req>>
          ELSE /\ writer' = p
               /\ txRows' = left
               /\ pc' = [pc EXCEPT ![p] = "delete_commit"]
               /\ req' = [req EXCEPT ![p] = request]
               /\ UNCHANGED last
    /\ UNCHANGED <<rows, seq, txSeq, cnt, assigned>>

\* conn.commit(); conn.close(); 200
delete_result_commit(p) ==
    /\ pc[p] = "delete_commit"
    /\ Commit(p)
    /\ pc' = [pc EXCEPT ![p] = "idle"]
    /\ req' = [req EXCEPT ![p] = NoReq]
    /\ last' = Answer(req[p], [status |-> 200])
    /\ UNCHANGED cnt

----------------------------------------------------------------------------
Next ==
    \E p \in Procs :
        \/ \E result \in AddBodies : add_result_execute(p, result)
        \/ add_result_commit(p)
        \/ \E results \in BulkBodies : add_bulk_start(p, results)
        \/ add_bulk_item(p)
        \/ add_bulk_commit(p)
        \/ \E upstream \in UpstreamStatuses, found \in ScrapeFound :
              scrape_fetch(p, upstream, found)
        \/ scrape_item(p)
        \/ scrape_commit(p)
        \/ \E result_id \in 1..MaxSeq : delete_result_execute(p, result_id)
        \/ delete_result_commit(p)

Spec == Init /\ [][Next]_vars

----------------------------------------------------------------------------
\* Properties.

KeyOf(r) == <<r.draw_date, r.period, r.prize_type, r.prize_number>>

KeyOfResult(result) ==
    <<result.draw_date, DerivePeriod(result.draw_date), result.prize_type,
      result.prize_number>>

Count(s, x) == Cardinality({i \in 1..Len(s) : s[i] = x})

\* Steps of a handler, told by where it stands before and after.
AddCommits(p) == pc[p] = "add_commit" /\ pc'[p] = "idle"
BulkEnds(p) == pc[p] = "bulk_loop" /\ pc'[p] = "idle"
DeleteCommits(p) == pc[p] = "delete_commit" /\ pc'[p] = "idle"

\* C1: in every reachable state no two rows of the table, committed or as
\* the open write transaction sees it, share (draw_date, period, prize_type,
\* prize_number), whatever the interleaving of add, add_bulk, scrape and
\* delete requests.
C1_UniqueKey ==
    /\ \A r1, r2 \in rows : KeyOf(r1) = KeyOf(r2) => r1 = r2
    /\ \A r1, r2 \in txRows : KeyOf(r1) = KeyOf(r2) => r1 = r2

\* Two requests are in flight on the same key: an add holds its uncommitted
\* row while an add_bulk stands before an item of the same key.
C1_Witness ==
    \E p, q \in Procs :
        /\ pc[p] = "add_commit"
        /\ pc[q] = "bulk_loop"
        /\ cnt[q].i <= Len(req[q].results)
        /\ KeyOfResult(req[q].results[cnt[q].i]) = KeyOfResult(req[p].result)

\* C2: a POST /add whose derived key is already in the store is answered
\* 400 and leaves the store as it was.
C2_DuplicateAddIs400 ==
    [][\A p \in Procs, result \in AddBodies :
          (/\ add_result_execute(p, result)
           /\ \E r \in rows : KeyOf(r) = KeyOfResult(result))
          => /\ last'.resp.status = 400
             /\ rows' = rows
             /\ txRows' = txRows]_vars

\* A required field of the request is empty.
Invalid(result) ==
    \/ result.draw_date = <<>>
    \/ result.prize_type = ""
    \/ result.prize_number = ""

\* The items of a batch that are invalid, or repeat the key of a stored row
\* or of an earlier item.
DuplicateOrInvalid(store, results) ==
    {i \in 1..Len(results) :
        \/ Invalid(results[i])
        \/ \E r \in store : KeyOf(r) = KeyOfResult(results[i])
        \/ \E j \in 1..(i - 1) : KeyOfResult(results[j]) = KeyOfResult(results[i])}

\* C3: POST /add_bulk never raises; it answers 200 {added, skipped} with
\* added + skipped = the number of inputs, skipped = the number of duplicate
\* or invalid items, and the store then holds the stored rows and exactly the
\* valid unique rows of the batch.
C3_BulkCountsAndNeverRaises ==
    [][\A p \in Procs :
          BulkEnds(p) =>
            LET results == req[p].results
                bad == DuplicateOrInvalid(rows, results)
            IN /\ last'.resp.status = 200
               /\ last'.resp.added + last'.resp.skipped = Len(results)
               /\ last'.resp.skipped = Cardinality(bad)
               /\ {KeyOf(r) : r \in rows'} =
                    {KeyOf(r) : r \in rows}
                      \cup {KeyOfResult(results[i]) : i \in (1..Len(results)) \ bad}
               /\ Cardinality(rows') =
                    Cardinality({KeyOf(r) : r \in rows'})]_vars

\* C4: when an add_bulk call ends, every row the batch inserted is in the
\* committed store and GET /results shows it, whatever made an item fail.
C4_BulkNoPartialRollback ==
    [][\A p \in Procs :
          (BulkEnds(p) /\ writer = p) =>
            \A r \in txRows \ rows :
               /\ r \in rows'
               /\ Count(get_all_results(rows', Cardinality(rows')), r) = 1]_vars

\* C5: GET /scrape whose upstream fetch reports a status other than 200 is
\* answered 502 and inserts nothing.
C5_UpstreamFailureIs502 ==
    [][\A p \in Procs, upstream \in UpstreamStatuses, found \in ScrapeFound :
          (scrape_fetch(p, upstream, found) /\ upstream # 200)
          => /\ last'.resp.status = 502
             /\ rows' = rows
             /\ txRows' = txRows]_vars

Before(store, r) ==
    {o \in store : \/ TextLess(r.draw_date, o.draw_date)
                   \/ o.draw_date = r.draw_date /\ o.id > r.id}

\* C7 as stated: after a successful insert, GET /results with any limit >= 1
\* holds the inserted row exactly once.
C7_InsertedRowListed ==
    [][\A r \in rows' \ rows : \A limit \in 1..MaxLimit :
          Count(get_all_results(rows', limit), r) = 1]_vars

\* C7 as amended: after a successful insert, GET /results?limit=N (N >= 1)
\* holds the inserted row exactly once when N is greater than the number of
\* stored rows that sort before it (later draw_date, or the same draw_date
\* and a larger id), and does not hold it otherwise; it never holds it twice.
C7_InsertedRowListedWithinLimit ==
    [][\A r \in rows' \ rows : \A limit \in 1..MaxLimit :
          Count(get_all_results(rows', limit), r) =
             IF limit > Cardinality(Before(rows', r)) THEN 1 ELSE 0]_vars

\* POST /add has just answered 200 for a row that an older insert of a later
\* draw_date sorts before.
C7_Witness ==
    /\ last.req.op = "add"
    /\ last.resp.status = 200
    /\ \E r \in rows :
          /\ r.id = last.resp.id
          /\ \E o \in rows : o.id < r.id /\ TextLess(r.draw_date, o.draw_date)

\* C8: DELETE of an id that is in the store is answered 200 and removes
\* exactly that row, which no GET /results shows any more, then or later;
\* DELETE of an id that is not in the store (deleted before, or never
\* assigned) is answered 404 and leaves the store as it was.
C8_DeleteById ==
    [][/\ \A p \in Procs, id \in 1..MaxSeq :
             /\ (delete_result_execute(p, id) /\ id \in Ids(rows))
                => /\ pc'[p] = "delete_commit"
                   /\ txRows' = {r \in rows : r.id # id}
                   /\ rows' = rows
             /\ (delete_result_execute(p, id) /\ id \notin Ids(rows))
                => /\ last'.resp.status = 404
                   /\ pc'[p] = "idle"
                   /\ rows' = rows
                   /\ txRows' = txRows
       /\ \A p \in Procs :
             DeleteCommits(p)
             => /\ last'.resp.status = 200
                /\ req[p].result_id \in Ids(rows)
                /\ rows' = {r \in rows : r.id # req[p].result_id}
                /\ \A limit \in 1..MaxLimit :
                      \A i \in 1..Len(get_all_results(rows', limit)) :
                         get_all_results(rows', limit)[i].id # req[p].result_id
       /\ \A i \in assigned : i \notin Ids(rows) => i \notin Ids(rows')]_vars

\* DELETE of an id that was inserted and has been deleted is answered 404.
C8_Witness ==
    /\ last.req.op = "delete"
    /\ last.resp.status = 404
    /\ last.req.result_id \in assigned
    /\ rows # {}

\* The draw dates of the requests, and one no request uses.
QueriedPeriods == {DerivePeriod(D16), DerivePeriod(D2), DerivePeriod(<<51>>)}

\* C9: GET /results/{period} returns exactly the rows of that period (404
\* when there are none), ordered by the rank first prize 1, front-3 2,
\* back-3 3, back-2 4, any other type 5, rows of equal rank by ascending id.
C9_ByPeriodOrder ==
    \A period \in QueriedPeriods :
        LET answer == get_results_by_period(rows, period)
            body == answer.body
            matching == {r \in rows : r.period = period}
            rank(r) == IF r.prize_type = FIRST THEN 1
                       ELSE IF r.prize_type = FRONT3 THEN 2
                       ELSE IF r.prize_type = BACK3 THEN 3
                       ELSE IF r.prize_type = BACK2 THEN 4
                       ELSE 5
        IN /\ answer.status = IF matching = {} THEN 404 ELSE 200
           /\ {body[i] : i \in 1..Len(body)} = matching
           /\ Len(body) = Cardinality(matching)
           /\ \A i, j \in 1..Len(body) :
                 i < j => \/ rank(body[i]) < rank(body[j])
                          \/ /\ rank(body[i]) = rank(body[j])
                             /\ body[i].id < body[j].id

\* One period holds a back-2, a first-prize and a back-3 row, inserted in
\* that order.
C9_Witness ==
    \E a, b, c \in rows :
        /\ a.period = b.period /\ b.period = c.period
        /\ a.prize_type = BACK2 /\ b.prize_type = FIRST /\ c.prize_type = BACK3
        /\ a.id < b.id /\ b.id < c.id

\* C10: GET /periods returns one entry for each period in the store, none
\* twice, by descending draw_date.
C10_OneEntryPerPeriod ==
    LET periods == get_all_periods(rows)
    IN /\ {periods[i].period : i \in 1..Len(periods)} = {r.period : r \in rows}
       /\ \A i, j \in 1..Len(periods) :
             i < j => /\ periods[i].period # periods[j].period
                      /\ ~TextLess(periods[i].draw_date, periods[j].draw_date)

\* The store holds rows of two periods, two of them of the same period.
C10_Witness ==
    /\ Len(get_all_periods(rows)) = 2
    /\ Cardinality(rows) = 3

====
